---- MODULE Spec2Model ----
(***************************************************************************)
(* The rider view (src/src/views/RiderView.vue) and the driver view        *)
(* (src/src/views/DriverView.vue) of the taxi application, each as a state *)
(* machine whose steps are the view's handlers: user presses, REST         *)
(* responses, socket events and timers.  The backend is the environment:   *)
(* it owns the trip records, moves a trip through its statuses in order    *)
(* and fans events out to the sockets joined to the trip's room.           *)
(* A REST request is processed by the backend when it is sent; its         *)
(* response and the socket events travel independently and arrive later.   *)
(*                                                                         *)
(* An async handler is one step per stretch between two awaits.  A Vue     *)
(* watcher runs within the step that changed the watched ref.  Events on   *)
(* one socket arrive in the order the backend emitted them.                *)
(*                                                                         *)
(* Not modelled: unmounting of the driver view, a socket dropped by the    *)
(* network, the map's markers and routes beyond the presence of a driver   *)
(* marker, and the texts of messages and dialogs.  The other copies of the *)
(* views in src/unnamed (part_002, part_007) differ in details noted where *)
(* they matter; the model follows src/src/views, and takes handleLogout,   *)
(* which only part_002 has, from there.                                    *)
(***************************************************************************)
EXTENDS Integers, Sequences, FiniteSets, TLC

\* ---- bounds of the exploration ----
MaxRequests == 1
MaxTrips == 1
MaxCancels == 1
MaxQueued == 2

\* ---- program constants ----
MAX_POLLING_ATTEMPTS == 3

NoTrip == 0
Requests == 1..MaxRequests
TripIds == 1..MaxTrips

\* AppState of src/src/types.ts ('finished' is never assigned by the view)
AppStates == {"idle", "REQUESTED", "ACCEPTED", "IN_PROGRESS", "COMPLETED", "CANCELLED"}
ActiveStatuses == {"REQUESTED", "ACCEPTED", "IN_PROGRESS"}

VARIABLES
  \* ---- rider view: refs and module variables of RiderView.vue ----
  map,                \* map.value and riderMarker.value are set (initMap has run)
  locate,             \* locateUserAndInitMap: "pending", "done", "failed"
  appState,
  assignedDriver,     \* "null", "drv" (driver object) or "trip" (trip data)
  statusMessage,
  rideId,             \* NoTrip or a trip id
  isRequesting,
  destinationAddress, \* "" or "dest"
  showModal,
  drivers,            \* a driver marker is on the map
  idleTimers,         \* pending setTimeout(() => updateUIFromState('idle'), 3000)
  pollingInterval,    \* "null", "armed" (live interval) or "cleared"
  pollingAttempts,
  nearby,             \* GET /api/drivers/nearby in flight, per requestRide
  noDriverDialogs,    \* open 'Sin Conductores Disponibles' dialogs
  tripPosts,          \* responses of POST /api/trips/request in flight, per
                      \* created trip (under NoTrip: the error responses)
  activeGet,          \* response of GET /api/trips/rider/active in flight
  cancelDialog,       \* the confirm dialog of cancelRide is open
  cancelPosts,        \* responses of POST /api/trips/:id/cancel in flight
  socket,             \* the object the variable `socket` refers to
  socketQueue,        \* events the backend has emitted to that socket
  \* ---- backend ----
  trips,              \* status of each trip record ("none" = not created)
  \* ---- history of the rider view ----
  reqNo,              \* requestRide calls so far
  queries,            \* nearby queries issued for the latest requestRide
  posts,              \* POST /api/trips/request sent for the latest requestRide
  ended,              \* an attempt of the latest requestRide has found drivers,
                      \* failed, or was the third and found none
  cancels,            \* cancel requests sent so far
  cancelAsked,        \* the request whose search the rider has cancelled last
  empties,            \* empty nearby-drivers responses of the latest requestRide
  mounted,            \* the rider view is mounted (onUnmounted has not run)
  \* ---- driver view: refs and module variables of DriverView.vue ----
  isAvailable,
  isLoadingAvailability,
  activeTrip,         \* NoActive or [id, status]
  tripRequests,       \* ids of the queued trips, in arrival order
  locationInterval,   \* the setInterval(sendLocationUpdate, 20000) is live
  driverSocket,       \* the driver view's socket: "connecting" or "connected"
  driverRooms,        \* trips whose room the driver's socket has joined
  driverQueue,        \* events the backend has emitted to the driver's socket
  driverGet,          \* response of GET /api/drivers/me in flight
  togglePatch,        \* the latest PATCH /api/drivers/availability: in flight or done
  acceptPosts,        \* POST /api/trips/:id/accept per trip: in flight ("ok",
                      \* "fail") or answered ("accepted", "failed")
  actionPosts,        \* POST /api/trips/:id/start|complete in flight
  \* ---- backend, as seen by the driver ----
  srvTrips,           \* status of the trips offered to the driver
  \* ---- history of the driver view ----
  emitted             \* update-location was emitted since activeTrip last changed

riderVars == <<map, locate, appState, assignedDriver, statusMessage, rideId,
               isRequesting, destinationAddress, showModal, drivers,
               idleTimers, pollingInterval, pollingAttempts, nearby,
               noDriverDialogs, tripPosts, activeGet, cancelDialog, cancelPosts,
               socket, socketQueue, trips, reqNo, queries, posts, ended,
               cancels, cancelAsked, empties, mounted>>

driverVars == <<isAvailable, isLoadingAvailability, activeTrip, tripRequests,
                locationInterval, driverSocket, driverRooms, driverQueue,
                driverGet, togglePatch, acceptPosts, actionPosts, srvTrips, emitted>>

\* ---- the part of the rider view updateUIFromState reads and writes ----
View == [map |-> map, appState |-> appState, assignedDriver |-> assignedDriver,
         statusMessage |-> statusMessage, rideId |-> rideId,
         isRequesting |-> isRequesting, destinationAddress |-> destinationAddress,
         showModal |-> showModal, drivers |-> drivers,
         idleTimers |-> idleTimers]

SetView(v) ==
  /\ map' = v.map
  /\ appState' = v.appState
  /\ assignedDriver' = v.assignedDriver
  /\ statusMessage' = v.statusMessage
  /\ rideId' = v.rideId
  /\ isRequesting' = v.isRequesting
  /\ destinationAddress' = v.destinationAddress
  /\ showModal' = v.showModal
  /\ drivers' = v.drivers
  /\ idleTimers' = v.idleTimers

displayModal(v) == [v EXCEPT !.showModal = TRUE]

\* updateUIFromState(newState, driver)
updateUIFromState(v, newState, driver) ==
  IF ~v.map THEN v
  ELSE LET b == [v EXCEPT !.appState = newState, !.assignedDriver = driver,
                          !.drivers = FALSE]
       IN CASE newState = "REQUESTED" ->
                 [b EXCEPT !.statusMessage = "Buscando conductores cercanos"]
            [] newState \in {"ACCEPTED", "IN_PROGRESS"} ->
                 IF driver = "drv"
                 THEN [b EXCEPT !.statusMessage = "is on the way", !.drivers = TRUE]
                 ELSE b
            [] newState = "COMPLETED" ->
                 [b EXCEPT !.statusMessage = "Your trip is complete",
                           !.idleTimers = @ + 1]
            [] newState = "CANCELLED" ->
                 [displayModal(b)
                    EXCEPT !.isRequesting = FALSE, !.statusMessage = "",
                           !.appState = "idle", !.assignedDriver = "null",
                           !.rideId = NoTrip]
            [] OTHER ->
                 [b EXCEPT !.statusMessage = "", !.appState = "idle",
                           !.assignedDriver = "null", !.destinationAddress = ""]

\* setupSocketListeners(): the socket the variable refers to afterwards
NoSocket == [st |-> "none", room |-> NoTrip]

setupSocketListeners(rid, s) ==
  IF rid = NoTrip THEN s ELSE [st |-> "connecting", room |-> NoTrip]

\* the event queue after setupSocketListeners(): a replaced socket receives nothing
QueueAfterSetup(rid, q) == IF rid = NoTrip THEN q ELSE <<>>

\* the backend fans an event of trip t out to the socket joined to t's room
Emit(q, s, t, e) ==
  IF s.st = "connected" /\ s.room = t THEN Append(q, e) ELSE q

\* a clearInterval that is forgotten: the interval stays live
clearPollingForgotten(p) == p

\* clearInterval(pollingInterval) guarded by `if (pollingInterval)`
clearPolling(p) == IF p = "null" THEN p ELSE "cleared"

\* ---------------------------------------------------------------------------
\* Rider view
\* ---------------------------------------------------------------------------

\* no native dialog and no modal overlay is in front of the panel
PanelFree == cancelDialog = "closed" /\ noDriverDialogs = 0 /\ ~showModal

\* the smallest trip id the backend has not used yet (NoTrip if none is left)
FreeTrip ==
  IF \E t \in TripIds : trips[t] = "none"
  THEN CHOOSE t \in TripIds : trips[t] = "none" /\ \A u \in 1..(t - 1) : trips[u] # "none"
  ELSE NoTrip

driverOf(status) == IF status = "REQUESTED" THEN "null" ELSE "drv"

RiderInit ==
  /\ map = FALSE
  /\ locate = "pending"
  /\ appState = "idle"
  /\ assignedDriver = "null"
  /\ statusMessage = "Finding your location"
  /\ rideId = NoTrip
  /\ isRequesting = FALSE
  /\ destinationAddress = ""
  /\ showModal = FALSE
  /\ drivers = FALSE
  /\ idleTimers = 0
  /\ pollingInterval = "null"
  /\ pollingAttempts = 0
  /\ nearby = [r \in Requests |-> 0]
  /\ noDriverDialogs = 0
  /\ tripPosts = [t \in {NoTrip} \cup TripIds |-> 0]
  /\ \E s \in {"none", "REQUESTED", "ACCEPTED"} :
       /\ trips = [t \in TripIds |-> IF t = 1 THEN s ELSE "none"]
       /\ activeGet = [st |-> "inflight", trip |-> IF s = "none" THEN NoTrip ELSE 1,
                       status |-> s, driver |-> driverOf(s)]
  /\ cancelDialog = "closed"
  /\ cancelPosts = {}
  /\ socket = NoSocket
  /\ socketQueue = <<>>
  /\ reqNo = 0
  /\ queries = 0
  /\ posts = 0
  /\ ended = FALSE
  /\ cancels = 0
  /\ cancelAsked = 0
  /\ empties = 0
  /\ mounted = TRUE

\* locateUserAndInitMap(): the position arrives and initMap() runs; initMap
\* returns at once when the map container is gone (`if (!mapContainer.value)`)
LocateDone ==
  /\ locate = "pending"
  /\ locate' = "done"
  /\ SetView([View EXCEPT !.statusMessage = "", !.map = mounted])
  /\ UNCHANGED <<pollingInterval, pollingAttempts, nearby, noDriverDialogs, tripPosts,
                 activeGet, cancelDialog, cancelPosts, socket, socketQueue, trips,
                 reqNo, queries, posts, ended, cancels, cancelAsked>>
  /\ UNCHANGED <<empties, mounted>>
  /\ UNCHANGED driverVars

\* locateUserAndInitMap(): geolocation fails, no map is created
LocateFail ==
  /\ locate = "pending"
  /\ locate' = "failed"
  /\ SetView(displayModal([View EXCEPT !.statusMessage = "Could not access your location"]))
  /\ UNCHANGED <<pollingInterval, pollingAttempts, nearby, noDriverDialogs, tripPosts,
                 activeGet, cancelDialog, cancelPosts, socket, socketQueue, trips,
                 reqNo, queries, posts, ended, cancels, cancelAsked>>
  /\ UNCHANGED <<empties, mounted>>
  /\ UNCHANGED driverVars

\* checkForActiveRide(): the response of GET /api/trips/rider/active arrives
ActiveRideResponse(ok) ==
  /\ activeGet.st = "inflight"
  /\ activeGet' = [activeGet EXCEPT !.st = IF ~ok THEN "failed"
                                           ELSE IF activeGet.trip = NoTrip THEN "none"
                                           ELSE "restored"]
  /\ IF ok /\ activeGet.trip # NoTrip
     THEN /\ SetView(updateUIFromState([View EXCEPT !.rideId = activeGet.trip],
                                       activeGet.status, activeGet.driver))
          /\ socket' = setupSocketListeners(activeGet.trip, socket)
          /\ socketQueue' = QueueAfterSetup(activeGet.trip, socketQueue)
     ELSE /\ SetView(updateUIFromState(View, "idle", "null"))
          /\ UNCHANGED <<socket, socketQueue>>
  /\ UNCHANGED <<locate, pollingInterval, pollingAttempts, nearby, noDriverDialogs,
                 tripPosts, cancelDialog, cancelPosts, trips, reqNo, queries, posts,
                 ended, cancels, cancelAsked>>
  /\ UNCHANGED <<empties, mounted>>
  /\ UNCHANGED driverVars

\* the rider fills the destination input of the idle panel
TypeDestination ==
  /\ mounted
  /\ appState = "idle" /\ PanelFree
  /\ destinationAddress = ""
  /\ destinationAddress' = "dest"
  /\ UNCHANGED <<map, locate, appState, assignedDriver, statusMessage, rideId,
                 isRequesting, showModal, drivers, idleTimers,
                 pollingInterval, pollingAttempts, nearby, noDriverDialogs, tripPosts,
                 activeGet, cancelDialog, cancelPosts, socket, socketQueue, trips,
                 reqNo, queries, posts, ended, cancels, cancelAsked>>
  /\ UNCHANGED <<empties, mounted>>
  /\ UNCHANGED driverVars

\* requestRide(), pressed on the idle panel's button
RequestRide ==
  /\ mounted
  /\ appState = "idle" /\ PanelFree /\ statusMessage = ""
  /\ map /\ destinationAddress # "" /\ ~isRequesting
  /\ reqNo < MaxRequests
  /\ reqNo' = reqNo + 1
  /\ SetView([updateUIFromState([View EXCEPT !.isRequesting = TRUE], "REQUESTED", "null")
                EXCEPT !.statusMessage = "Buscando conductores (Intento)"])
  /\ pollingAttempts' = 1
  /\ nearby' = [nearby EXCEPT ![reqNo + 1] = @ + 1]
  /\ queries' = 1
  /\ posts' = 0
  /\ ended' = FALSE
  /\ pollingInterval' = "armed"
  /\ UNCHANGED <<locate, noDriverDialogs, tripPosts, activeGet, cancelDialog,
                 cancelPosts, socket, socketQueue, trips, cancels, cancelAsked>>
  /\ empties' = 0
  /\ UNCHANGED mounted
  /\ UNCHANGED driverVars

\* the setInterval callback of requestRide
PollTick ==
  /\ pollingInterval = "armed"
  /\ IF pollingAttempts < MAX_POLLING_ATTEMPTS
     THEN /\ pollingAttempts' = pollingAttempts + 1
          /\ statusMessage' = "Buscando conductores (Intento)"
          /\ nearby' = [nearby EXCEPT ![reqNo] = @ + 1]
          /\ queries' = queries + 1
          /\ UNCHANGED pollingInterval
     ELSE /\ pollingInterval' = "cleared"
          /\ UNCHANGED <<pollingAttempts, statusMessage, nearby, queries>>
  /\ UNCHANGED <<map, locate, appState, assignedDriver, rideId, isRequesting,
                 destinationAddress, showModal, drivers, idleTimers,
                 noDriverDialogs, tripPosts, activeGet, cancelDialog, cancelPosts,
                 socket, socketQueue, trips, reqNo, posts, ended,
                 cancels, cancelAsked>>
  /\ UNCHANGED <<empties, mounted>>
  /\ UNCHANGED driverVars

\* findDriverWithPolling(): a nearby-drivers response of request r arrives with a
\* non-empty list; createTripRequest() sends POST /api/trips/request, which the
\* backend answers by creating a trip (created) or by an error
NearbyFound(r, created) ==
  /\ nearby[r] > 0
  /\ nearby' = [nearby EXCEPT ![r] = @ - 1]
  /\ pollingInterval' = clearPolling(pollingInterval)
  /\ statusMessage' = "Esperando respuesta del conductor"
  /\ posts' = IF r = reqNo THEN posts + 1 ELSE posts
  /\ ended' = (ended \/ r = reqNo)
  /\ IF created /\ FreeTrip # NoTrip
     THEN /\ trips' = [trips EXCEPT ![FreeTrip] = "REQUESTED"]
          /\ tripPosts' = [tripPosts EXCEPT ![FreeTrip] = @ + 1]
     ELSE /\ tripPosts' = [tripPosts EXCEPT ![NoTrip] = @ + 1]
          /\ UNCHANGED trips
  /\ UNCHANGED <<map, locate, appState, assignedDriver, rideId, isRequesting,
                 destinationAddress, showModal, drivers, idleTimers,
                 pollingAttempts, noDriverDialogs, activeGet, cancelDialog,
                 cancelPosts, socket, socketQueue, reqNo, queries,
                 cancels, cancelAsked>>
  /\ UNCHANGED <<empties, mounted>>
  /\ UNCHANGED driverVars

\* an empty third response that leaves isRequesting set
NearbyEmptyKeepsRequesting(r) ==
  /\ nearby[r] > 0
  /\ nearby' = [nearby EXCEPT ![r] = @ - 1]
  /\ IF pollingAttempts >= MAX_POLLING_ATTEMPTS
     THEN /\ pollingInterval' = clearPolling(pollingInterval)
          /\ noDriverDialogs' = noDriverDialogs + 1
          /\ UNCHANGED isRequesting
     ELSE UNCHANGED <<pollingInterval, isRequesting, noDriverDialogs>>
  /\ ended' = (ended \/ (r = reqNo /\ pollingAttempts >= MAX_POLLING_ATTEMPTS))
  /\ UNCHANGED <<map, locate, appState, assignedDriver, statusMessage, rideId,
                 destinationAddress, showModal, drivers, idleTimers,
                 pollingAttempts, tripPosts, activeGet, cancelDialog, cancelPosts,
                 socket, socketQueue, trips, reqNo, queries, posts,
                 cancels, cancelAsked>>
  /\ empties' = IF r = reqNo THEN empties + 1 ELSE empties
  /\ UNCHANGED mounted
  /\ UNCHANGED driverVars

\* findDriverWithPolling(): a nearby-drivers response of request r arrives with an
\* empty list
NearbyEmpty(r) ==
  /\ nearby[r] > 0
  /\ nearby' = [nearby EXCEPT ![r] = @ - 1]
  /\ IF pollingAttempts >= MAX_POLLING_ATTEMPTS
     THEN /\ pollingInterval' = clearPolling(pollingInterval)
          /\ isRequesting' = FALSE
          /\ noDriverDialogs' = noDriverDialogs + 1
     ELSE UNCHANGED <<pollingInterval, isRequesting, noDriverDialogs>>
  /\ ended' = (ended \/ (r = reqNo /\ pollingAttempts >= MAX_POLLING_ATTEMPTS))
  /\ UNCHANGED <<map, locate, appState, assignedDriver, statusMessage, rideId,
                 destinationAddress, showModal, drivers, idleTimers,
                 pollingAttempts, tripPosts, activeGet, cancelDialog, cancelPosts,
                 socket, socketQueue, trips, reqNo, queries, posts,
                 cancels, cancelAsked>>
  /\ empties' = IF r = reqNo THEN empties + 1 ELSE empties
  /\ UNCHANGED mounted
  /\ UNCHANGED driverVars

\* findDriverWithPolling(): a nearby-drivers query of request r fails (catch branch)
NearbyFailed(r) ==
  /\ nearby[r] > 0
  /\ nearby' = [nearby EXCEPT ![r] = @ - 1]
  /\ pollingInterval' = clearPolling(pollingInterval)
  /\ SetView(updateUIFromState(View, "idle", "null"))
  /\ ended' = (ended \/ r = reqNo)
  /\ UNCHANGED <<locate, pollingAttempts, noDriverDialogs, tripPosts, activeGet,
                 cancelDialog, cancelPosts, socket, socketQueue, trips, reqNo,
                 queries, posts, cancels, cancelAsked>>
  /\ UNCHANGED <<empties, mounted>>
  /\ UNCHANGED driverVars

\* findDriverWithPolling(): the rider dismisses 'Sin Conductores Disponibles'
DismissNoDriverDialog ==
  /\ noDriverDialogs > 0
  /\ noDriverDialogs' = noDriverDialogs - 1
  /\ SetView(updateUIFromState(View, "idle", "null"))
  /\ UNCHANGED <<locate, pollingInterval, pollingAttempts, nearby, tripPosts,
                 activeGet, cancelDialog, cancelPosts, socket, socketQueue, trips,
                 reqNo, queries, posts, ended, cancels, cancelAsked>>
  /\ UNCHANGED <<empties, mounted>>
  /\ UNCHANGED driverVars

\* a createTripRequest that shows the created trip as accepted right away
TripPostResponseOptimistic(t) ==
  /\ tripPosts[t] > 0
  /\ tripPosts' = [tripPosts EXCEPT ![t] = @ - 1]
  /\ IF t # NoTrip
     THEN /\ SetView(updateUIFromState([View EXCEPT !.rideId = t], "ACCEPTED", "drv"))
          /\ socket' = setupSocketListeners(t, socket)
          /\ socketQueue' = QueueAfterSetup(t, socketQueue)
     ELSE /\ SetView(updateUIFromState(View, "idle", "null"))
          /\ UNCHANGED <<socket, socketQueue>>
  /\ UNCHANGED <<locate, pollingInterval, pollingAttempts, nearby, noDriverDialogs,
                 activeGet, cancelDialog, cancelPosts, trips, reqNo, queries, posts,
                 ended, cancels, cancelAsked>>
  /\ UNCHANGED <<empties, mounted>>
  /\ UNCHANGED driverVars

\* createTripRequest(): a response of POST /api/trips/request arrives, with the
\* created trip t or (t = NoTrip) with an error
TripPostResponse(t) ==
  /\ tripPosts[t] > 0
  /\ tripPosts' = [tripPosts EXCEPT ![t] = @ - 1]
  /\ IF t # NoTrip
     THEN /\ SetView([View EXCEPT !.rideId = t])
          /\ socket' = setupSocketListeners(t, socket)
          /\ socketQueue' = QueueAfterSetup(t, socketQueue)
     ELSE /\ SetView(updateUIFromState(View, "idle", "null"))
          /\ UNCHANGED <<socket, socketQueue>>
  /\ UNCHANGED <<locate, pollingInterval, pollingAttempts, nearby, noDriverDialogs,
                 activeGet, cancelDialog, cancelPosts, trips, reqNo, queries, posts,
                 ended, cancels, cancelAsked>>
  /\ UNCHANGED <<empties, mounted>>
  /\ UNCHANGED driverVars

\* the cancel button is rendered: REQUESTED panel, or ride panel with a driver
CancelButtonShown ==
  \/ appState = "REQUESTED"
  \/ appState \in {"ACCEPTED", "IN_PROGRESS"} /\ assignedDriver # "null"

\* cancelRide(), up to `await Dialog.confirm`; returns at once without a rideId
CancelPress ==
  /\ mounted
  /\ CancelButtonShown /\ PanelFree
  /\ cancels < MaxCancels
  /\ IF rideId = NoTrip
     THEN /\ cancelAsked' = IF appState = "REQUESTED" THEN reqNo ELSE cancelAsked
          /\ UNCHANGED cancelDialog
     ELSE /\ cancelDialog' = IF appState = "REQUESTED" THEN "search" ELSE "ride"
          /\ UNCHANGED cancelAsked
  /\ UNCHANGED <<map, locate, appState, assignedDriver, statusMessage, rideId,
                 isRequesting, destinationAddress, showModal, drivers,
                 idleTimers, pollingInterval, pollingAttempts, nearby,
                 noDriverDialogs, tripPosts, activeGet, cancelPosts, socket,
                 socketQueue, trips, reqNo, queries, posts, ended, cancels>>
  /\ UNCHANGED <<empties, mounted>>
  /\ UNCHANGED driverVars

\* cancelRide(): the rider answers the dialog; on 'Si' POST /api/trips/:id/cancel is
\* sent for the current rideId, which the backend accepts (accepted) or rejects
CancelConfirm(value, accepted) ==
  /\ cancelDialog # "closed"
  /\ cancelDialog' = "closed"
  /\ IF value
     THEN /\ cancels' = cancels + 1
          /\ cancelAsked' = IF cancelDialog = "search" THEN reqNo ELSE cancelAsked
          /\ IF accepted /\ rideId # NoTrip /\ trips[rideId] \in ActiveStatuses
             THEN /\ trips' = [trips EXCEPT ![rideId] = "CANCELLED"]
                  /\ socketQueue' = Emit(socketQueue, socket, rideId,
                                         [ev |-> "trip-updated", status |-> "CANCELLED",
                                          driver |-> driverOf(trips[rideId])])
                  /\ cancelPosts' = cancelPosts \cup {[trip |-> rideId, ok |-> TRUE]}
             ELSE /\ cancelPosts' = cancelPosts \cup {[trip |-> rideId, ok |-> FALSE]}
                  /\ UNCHANGED <<trips, socketQueue>>
     ELSE UNCHANGED <<cancels, cancelAsked, trips, socketQueue, cancelPosts>>
  /\ UNCHANGED <<map, locate, appState, assignedDriver, statusMessage, rideId,
                 isRequesting, destinationAddress, showModal, drivers,
                 idleTimers, pollingInterval, pollingAttempts, nearby,
                 noDriverDialogs, tripPosts, activeGet, socket, reqNo, queries,
                 posts, ended>>
  /\ UNCHANGED <<empties, mounted>>
  /\ UNCHANGED driverVars

\* cancelRide(): the response of POST /api/trips/:id/cancel arrives; a failure
\* only shows the 'No se pudo cancelar el viaje' alert
CancelResponse(c) ==
  /\ c \in cancelPosts
  /\ cancelPosts' = cancelPosts \ {c}
  /\ IF c.ok
     THEN SetView(updateUIFromState(View, "CANCELLED", "trip"))
     ELSE UNCHANGED <<map, appState, assignedDriver, statusMessage, rideId,
                      isRequesting, destinationAddress, showModal,
                      drivers, idleTimers>>
  /\ UNCHANGED <<locate, pollingInterval, pollingAttempts, nearby, noDriverDialogs,
                 tripPosts, activeGet, cancelDialog, socket, socketQueue, trips,
                 reqNo, queries, posts, ended, cancels, cancelAsked>>
  /\ UNCHANGED <<empties, mounted>>
  /\ UNCHANGED driverVars

\* socket.on('connect'): joinRideRoom is emitted for the current rideId
SocketConnect ==
  /\ socket.st = "connecting"
  /\ socket' = [st |-> "connected", room |-> rideId]
  /\ UNCHANGED <<map, locate, appState, assignedDriver, statusMessage, rideId,
                 isRequesting, destinationAddress, showModal, drivers,
                 idleTimers, pollingInterval, pollingAttempts, nearby,
                 noDriverDialogs, tripPosts, activeGet, cancelDialog, cancelPosts,
                 socketQueue, trips, reqNo, queries, posts, ended,
                 cancels, cancelAsked>>
  /\ UNCHANGED <<empties, mounted>>
  /\ UNCHANGED driverVars

\* socket.on('trip-updated') and socket.on('trip-accepted')
SocketEvent ==
  /\ socket.st = "connected"
  /\ socketQueue # <<>>
  /\ socketQueue' = Tail(socketQueue)
  /\ SetView(updateUIFromState(View, Head(socketQueue).status, Head(socketQueue).driver))
  /\ UNCHANGED <<locate, pollingInterval, pollingAttempts, nearby, noDriverDialogs,
                 tripPosts, activeGet, cancelDialog, cancelPosts, socket, trips,
                 reqNo, queries, posts, ended, cancels, cancelAsked>>
  /\ UNCHANGED <<empties, mounted>>
  /\ UNCHANGED driverVars

\* the timer set by the COMPLETED branch of updateUIFromState fires
IdleTimerFire ==
  /\ idleTimers > 0
  /\ SetView(updateUIFromState([View EXCEPT !.idleTimers = @ - 1], "idle", "null"))
  /\ UNCHANGED <<locate, pollingInterval, pollingAttempts, nearby, noDriverDialogs,
                 tripPosts, activeGet, cancelDialog, cancelPosts, socket,
                 socketQueue, trips, reqNo, queries, posts, ended,
                 cancels, cancelAsked>>
  /\ UNCHANGED <<empties, mounted>>
  /\ UNCHANGED driverVars

\* the modal's button: @click="showModal = false"
CloseModal ==
  /\ mounted
  /\ showModal
  /\ showModal' = FALSE
  /\ UNCHANGED <<map, locate, appState, assignedDriver, statusMessage, rideId,
                 isRequesting, destinationAddress, drivers, idleTimers,
                 pollingInterval, pollingAttempts, nearby, noDriverDialogs,
                 tripPosts, activeGet, cancelDialog, cancelPosts, socket,
                 socketQueue, trips, reqNo, queries, posts, ended,
                 cancels, cancelAsked>>
  /\ UNCHANGED <<empties, mounted>>
  /\ UNCHANGED driverVars

\* socket.disconnect(), guarded by `if (socket)`
Disconnected(s) == IF s.st = "none" THEN s ELSE [s EXCEPT !.st = "disconnected"]

\* onUnmounted(): the polling interval is cleared and the socket disconnected;
\* requests in flight, native dialogs and the idle timer are left alone
Unmount ==
  /\ mounted
  /\ mounted' = FALSE
  /\ pollingInterval' = clearPolling(pollingInterval)
  /\ socket' = Disconnected(socket)
  /\ socketQueue' = <<>>
  /\ UNCHANGED <<map, locate, appState, assignedDriver, statusMessage, rideId,
                 isRequesting, destinationAddress, showModal, drivers,
                 idleTimers, pollingAttempts, nearby, noDriverDialogs, tripPosts,
                 activeGet, cancelDialog, cancelPosts, trips, reqNo, queries,
                 posts, ended, cancels, cancelAsked, empties>>
  /\ UNCHANGED driverVars

\* handleLogout(): disconnects the socket, clears the polling interval, logs out
\* and navigates to /login, which unmounts the view.  Requests sent afterwards
\* carry no token; their rejection is among the outcomes the responses allow.
handleLogout ==
  /\ mounted /\ PanelFree
  /\ socket' = Disconnected(socket)
  /\ socketQueue' = <<>>
  /\ pollingInterval' = clearPolling(pollingInterval)
  /\ mounted' = FALSE
  /\ UNCHANGED <<map, locate, appState, assignedDriver, statusMessage, rideId,
                 isRequesting, destinationAddress, showModal, drivers,
                 idleTimers, pollingAttempts, nearby, noDriverDialogs, tripPosts,
                 activeGet, cancelDialog, cancelPosts, trips, reqNo, queries,
                 posts, ended, cancels, cancelAsked, empties>>
  /\ UNCHANGED driverVars

\* ---- backend: a trip moves through its statuses in order ----
ServerMove(t, from, to, e) ==
  /\ trips[t] = from
  /\ trips' = [trips EXCEPT ![t] = to]
  /\ socketQueue' = Emit(socketQueue, socket, t, e)
  /\ UNCHANGED <<map, locate, appState, assignedDriver, statusMessage, rideId,
                 isRequesting, destinationAddress, showModal, drivers,
                 idleTimers, pollingInterval, pollingAttempts, nearby,
                 noDriverDialogs, tripPosts, activeGet, cancelDialog, cancelPosts,
                 socket, reqNo, queries, posts, ended, cancels, cancelAsked>>
  /\ UNCHANGED <<empties, mounted>>
  /\ UNCHANGED driverVars

\* a driver accepts the trip: 'trip-accepted' {trip, driver}
ServerAccept(t) ==
  ServerMove(t, "REQUESTED", "ACCEPTED",
             [ev |-> "trip-accepted", status |-> "ACCEPTED", driver |-> "drv"])

\* the driver starts the trip: 'trip-updated'
ServerStart(t) ==
  ServerMove(t, "ACCEPTED", "IN_PROGRESS",
             [ev |-> "trip-updated", status |-> "IN_PROGRESS", driver |-> "drv"])

\* the driver completes the trip: 'trip-updated'
ServerComplete(t) ==
  ServerMove(t, "IN_PROGRESS", "COMPLETED",
             [ev |-> "trip-updated", status |-> "COMPLETED", driver |-> "drv"])

\* the search times out or the driver cancels: 'trip-updated'
ServerCancel(t) ==
  \E s \in {"REQUESTED", "ACCEPTED"} :
    ServerMove(t, s, "CANCELLED",
               [ev |-> "trip-updated", status |-> "CANCELLED", driver |-> driverOf(s)])

\* ---------------------------------------------------------------------------
\* Driver view
\* ---------------------------------------------------------------------------

Offered == 1..MaxQueued          \* trips offered to the driver while mounted
Restored == MaxQueued + 1        \* the trip the driver had before mounting
DriverTrips == 1..(MaxQueued + 1)

NoActive == [id |-> NoTrip, status |-> "none"]
NoPatch == [st |-> "none", new |-> FALSE, ok |-> FALSE]

\* watch(isAvailable, ...): runs when the flag has changed once the handler is done
watchIsAvailable(old, new, interval) == IF old = new THEN interval ELSE new

\* sendLocationUpdate(): emits update-location on a connected socket
sendLocationUpdate(e) == e \/ driverSocket = "connected"

\* io.to(room).emit: the event reaches the driver if its socket is in t's room
EmitRoom(q, t, e) == IF t \in driverRooms THEN Append(q, e) ELSE q

\* socket.emit to the driver's socket
EmitDriver(q, e) == IF driverSocket = "connected" THEN Append(q, e) ELSE q

DriverInit ==
  /\ isAvailable = FALSE
  /\ isLoadingAvailability = FALSE
  /\ activeTrip = NoActive
  /\ tripRequests = <<>>
  /\ locationInterval = FALSE
  /\ driverSocket = "connecting"
  /\ driverRooms = {}
  /\ driverQueue = <<>>
  /\ \E a \in BOOLEAN, s \in {"none", "ACCEPTED", "IN_PROGRESS"} :
       /\ driverGet = [st |-> "inflight", isAvailable |-> a,
                       trip |-> IF s = "none" THEN NoActive
                                ELSE [id |-> Restored, status |-> s]]
       /\ srvTrips = [t \in DriverTrips |-> IF t = Restored THEN s ELSE "none"]
  /\ togglePatch = NoPatch
  /\ acceptPosts = [t \in Offered |-> "none"]
  /\ actionPosts = {}
  /\ emitted = FALSE

\* socket.on('connect')
DriverSocketConnect ==
  /\ driverSocket = "connecting"
  /\ driverSocket' = "connected"
  /\ UNCHANGED <<isAvailable, isLoadingAvailability, activeTrip, tripRequests,
                 locationInterval, driverRooms, driverQueue, driverGet,
                 togglePatch, acceptPosts, actionPosts, srvTrips, emitted>>
  /\ UNCHANGED riderVars

\* fetchDriverState(): the response of GET /api/drivers/me arrives
FetchDriverStateResponse(ok) ==
  /\ driverGet.st = "inflight"
  /\ driverGet' = [driverGet EXCEPT !.st = IF ok THEN "done" ELSE "failed"]
  /\ IF ok
     THEN IF driverGet.trip # NoActive
          THEN /\ activeTrip' = driverGet.trip
               /\ isAvailable' = FALSE
               /\ driverRooms' = IF driverSocket = "connected"
                                 THEN driverRooms \cup {driverGet.trip.id}
                                 ELSE driverRooms
               /\ emitted' = FALSE
          ELSE /\ isAvailable' = driverGet.isAvailable
               /\ emitted' = IF ~isAvailable /\ driverGet.isAvailable
                             THEN sendLocationUpdate(emitted) ELSE emitted
               /\ UNCHANGED <<activeTrip, driverRooms>>
     ELSE UNCHANGED <<activeTrip, isAvailable, driverRooms, emitted>>
  /\ locationInterval' = watchIsAvailable(isAvailable, isAvailable', locationInterval)
  /\ UNCHANGED <<isLoadingAvailability, tripRequests, driverSocket, driverQueue,
                 togglePatch, acceptPosts, actionPosts, srvTrips>>
  /\ UNCHANGED riderVars

\* toggleAvailability(), pressed on the header button, up to the await: the
\* backend applies the PATCH (ok) or rejects it
TogglePress(ok) ==
  /\ ~isLoadingAvailability /\ activeTrip = NoActive
  /\ isLoadingAvailability' = TRUE
  /\ togglePatch' = [st |-> "inflight", new |-> ~isAvailable, ok |-> ok]
  /\ UNCHANGED <<isAvailable, activeTrip, tripRequests, locationInterval,
                 driverSocket, driverRooms, driverQueue, driverGet, acceptPosts,
                 actionPosts, srvTrips, emitted>>
  /\ UNCHANGED riderVars

\* a toggleAvailability that applies the new flag before it knows the outcome
ToggleResponseUnchecked ==
  /\ togglePatch.st = "inflight"
  /\ togglePatch' = [togglePatch EXCEPT !.st = "done"]
  /\ isAvailable' = togglePatch.new
  /\ tripRequests' = IF ~togglePatch.new THEN <<>> ELSE tripRequests
  /\ emitted' = IF ~isAvailable /\ togglePatch.new
                THEN sendLocationUpdate(emitted) ELSE emitted
  /\ isLoadingAvailability' = FALSE
  /\ locationInterval' = watchIsAvailable(isAvailable, isAvailable', locationInterval)
  /\ UNCHANGED <<activeTrip, driverSocket, driverRooms, driverQueue, driverGet,
                 acceptPosts, actionPosts, srvTrips>>
  /\ UNCHANGED riderVars

\* toggleAvailability(): the response arrives (try, catch and finally)
ToggleResponse ==
  /\ togglePatch.st = "inflight"
  /\ togglePatch' = [togglePatch EXCEPT !.st = "done"]
  /\ IF togglePatch.ok
     THEN /\ isAvailable' = togglePatch.new
          /\ tripRequests' = IF ~togglePatch.new THEN <<>> ELSE tripRequests
          /\ emitted' = IF ~isAvailable /\ togglePatch.new
                        THEN sendLocationUpdate(emitted) ELSE emitted
     ELSE UNCHANGED <<isAvailable, tripRequests, emitted>>
  /\ isLoadingAvailability' = FALSE
  /\ locationInterval' = watchIsAvailable(isAvailable, isAvailable', locationInterval)
  /\ UNCHANGED <<activeTrip, driverSocket, driverRooms, driverQueue, driverGet,
                 acceptPosts, actionPosts, srvTrips>>
  /\ UNCHANGED riderVars

\* the list of trip requests with its 'Aceptar' buttons is rendered
RequestListShown ==
  /\ ~(activeTrip # NoActive /\ activeTrip.status # "COMPLETED")
  /\ isAvailable

Without(q, t) == SelectSeq(q, LAMBDA x : x # t)

InSeq(q, t) == \E i \in 1..Len(q) : q[i] = t

\* acceptTrip(tripId), up to the await: the backend gives the trip to the driver
\* (ok) or answers with an error
AcceptPress(t, ok) ==
  /\ RequestListShown /\ InSeq(tripRequests, t)
  /\ acceptPosts[t] = "none"
  /\ IF ok /\ srvTrips[t] = "REQUESTED"
     THEN /\ srvTrips' = [srvTrips EXCEPT ![t] = "ACCEPTED"]
          /\ acceptPosts' = [acceptPosts EXCEPT ![t] = "ok"]
     ELSE /\ acceptPosts' = [acceptPosts EXCEPT ![t] = "fail"]
          /\ UNCHANGED srvTrips
  /\ UNCHANGED <<isAvailable, isLoadingAvailability, activeTrip, tripRequests,
                 locationInterval, driverSocket, driverRooms, driverQueue,
                 driverGet, togglePatch, actionPosts, emitted>>
  /\ UNCHANGED riderVars

\* acceptTrip(tripId): the response arrives with the accepted trip
AcceptSucceeded(t) ==
  /\ acceptPosts[t] = "ok"
  /\ acceptPosts' = [acceptPosts EXCEPT ![t] = "accepted"]
  /\ activeTrip' = [id |-> t, status |-> "ACCEPTED"]
  /\ isAvailable' = FALSE
  /\ tripRequests' = <<>>
  /\ driverRooms' = IF driverSocket = "connected" THEN driverRooms \cup {t}
                    ELSE driverRooms
  /\ locationInterval' = watchIsAvailable(isAvailable, isAvailable', locationInterval)
  /\ emitted' = FALSE
  /\ UNCHANGED <<isLoadingAvailability, driverSocket, driverQueue, driverGet,
                 togglePatch, actionPosts, srvTrips>>
  /\ UNCHANGED riderVars

\* an acceptTrip whose catch branch drops every queued request
AcceptFailedClearing(t) ==
  /\ acceptPosts[t] = "fail"
  /\ acceptPosts' = [acceptPosts EXCEPT ![t] = "failed"]
  /\ tripRequests' = <<>>
  /\ UNCHANGED <<isAvailable, isLoadingAvailability, activeTrip, locationInterval,
                 driverSocket, driverRooms, driverQueue, driverGet, togglePatch,
                 actionPosts, srvTrips, emitted>>
  /\ UNCHANGED riderVars

\* acceptTrip(tripId): the request fails (catch branch)
AcceptFailed(t) ==
  /\ acceptPosts[t] = "fail"
  /\ acceptPosts' = [acceptPosts EXCEPT ![t] = "failed"]
  /\ tripRequests' = Without(tripRequests, t)
  /\ UNCHANGED <<isAvailable, isLoadingAvailability, activeTrip, locationInterval,
                 driverSocket, driverRooms, driverQueue, driverGet, togglePatch,
                 actionPosts, srvTrips, emitted>>
  /\ UNCHANGED riderVars

\* a rejected trip action: the catch branch only shows an alert
FailedAction == [trip |-> NoTrip, action |-> "none", ok |-> FALSE]

\* the status a trip action leads to
ActionOf(status) == IF status = "ACCEPTED" THEN "start" ELSE "complete"
ResultOf(action) == IF action = "start" THEN "IN_PROGRESS" ELSE "COMPLETED"

\* handleTripAction(action), pressed on 'Iniciar viaje' / 'Completar viaje', up to
\* the await: the backend moves the trip (ok) and tells the room, or rejects
TripActionPress(ok) ==
  /\ activeTrip # NoActive
  /\ activeTrip.status \in {"ACCEPTED", "IN_PROGRESS"}
  /\ LET t == activeTrip.id
         action == ActionOf(activeTrip.status)
     IN IF ok /\ srvTrips[t] = activeTrip.status
        THEN /\ srvTrips' = [srvTrips EXCEPT ![t] = ResultOf(action)]
             /\ driverQueue' = EmitRoom(driverQueue, t,
                                 [ev |-> "trip-updated", trip |-> t,
                                  status |-> ResultOf(action)])
             /\ actionPosts' = actionPosts \cup {[trip |-> t, action |-> action, ok |-> TRUE]}
        ELSE /\ actionPosts' = actionPosts \cup {FailedAction}
             /\ UNCHANGED <<srvTrips, driverQueue>>
  /\ UNCHANGED <<isAvailable, isLoadingAvailability, activeTrip, tripRequests,
                 locationInterval, driverSocket, driverRooms, driverGet,
                 togglePatch, acceptPosts, emitted>>
  /\ UNCHANGED riderVars

\* handleTripAction(action): the response arrives
TripActionResponse(p) ==
  /\ p \in actionPosts
  /\ actionPosts' = actionPosts \ {p}
  /\ IF p.ok
     THEN IF p.action = "complete"
          THEN /\ activeTrip' = NoActive
               /\ isAvailable' = TRUE
               /\ emitted' = IF ~isAvailable THEN sendLocationUpdate(FALSE) ELSE FALSE
          ELSE /\ activeTrip' = [id |-> p.trip, status |-> ResultOf(p.action)]
               /\ emitted' = IF activeTrip' = activeTrip THEN emitted ELSE FALSE
               /\ UNCHANGED isAvailable
     ELSE UNCHANGED <<activeTrip, isAvailable, emitted>>
  /\ locationInterval' = watchIsAvailable(isAvailable, isAvailable', locationInterval)
  /\ UNCHANGED <<isLoadingAvailability, tripRequests, driverSocket, driverRooms,
                 driverQueue, driverGet, togglePatch, acceptPosts, srvTrips>>
  /\ UNCHANGED riderVars

\* socket.on('new-trip-request')
OnNewTripRequest ==
  /\ driverSocket = "connected" /\ driverQueue # <<>>
  /\ Head(driverQueue).ev = "new-trip-request"
  /\ driverQueue' = Tail(driverQueue)
  /\ tripRequests' = IF isAvailable /\ activeTrip = NoActive
                     THEN Append(tripRequests, Head(driverQueue).trip)
                     ELSE tripRequests
  /\ UNCHANGED <<isAvailable, isLoadingAvailability, activeTrip, locationInterval,
                 driverSocket, driverRooms, driverGet, togglePatch, acceptPosts,
                 actionPosts, srvTrips, emitted>>
  /\ UNCHANGED riderVars

\* socket.on('trip-unavailable')
OnTripUnavailable ==
  /\ driverSocket = "connected" /\ driverQueue # <<>>
  /\ Head(driverQueue).ev = "trip-unavailable"
  /\ driverQueue' = Tail(driverQueue)
  /\ tripRequests' = Without(tripRequests, Head(driverQueue).trip)
  /\ UNCHANGED <<isAvailable, isLoadingAvailability, activeTrip, locationInterval,
                 driverSocket, driverRooms, driverGet, togglePatch, acceptPosts,
                 actionPosts, srvTrips, emitted>>
  /\ UNCHANGED riderVars

\* socket.on('trip-updated') of the driver view
OnTripUpdated ==
  /\ driverSocket = "connected" /\ driverQueue # <<>>
  /\ Head(driverQueue).ev = "trip-updated"
  /\ driverQueue' = Tail(driverQueue)
  /\ LET e == Head(driverQueue)
     IN IF activeTrip # NoActive /\ activeTrip.id = e.trip
        THEN /\ activeTrip' = IF e.status \in {"CANCELLED", "COMPLETED"} THEN NoActive
                              ELSE [id |-> e.trip, status |-> e.status]
             /\ isAvailable' = IF e.status = "CANCELLED" THEN TRUE ELSE isAvailable
             /\ emitted' = IF activeTrip' = activeTrip THEN emitted
                           ELSE IF ~isAvailable /\ isAvailable'
                           THEN sendLocationUpdate(FALSE) ELSE FALSE
        ELSE UNCHANGED <<activeTrip, isAvailable, emitted>>
  /\ locationInterval' = watchIsAvailable(isAvailable, isAvailable', locationInterval)
  /\ UNCHANGED <<isLoadingAvailability, tripRequests, driverSocket, driverRooms,
                 driverGet, togglePatch, acceptPosts, actionPosts, srvTrips>>
  /\ UNCHANGED riderVars

\* the interval callback sendLocationUpdate
LocationTick ==
  /\ locationInterval
  /\ emitted' = sendLocationUpdate(emitted)
  /\ UNCHANGED <<isAvailable, isLoadingAvailability, activeTrip, tripRequests,
                 locationInterval, driverSocket, driverRooms, driverQueue,
                 driverGet, togglePatch, acceptPosts, actionPosts, srvTrips>>
  /\ UNCHANGED riderVars

\* ---- backend, driver side ----
DriverServerStep(t, from, to, q) ==
  /\ srvTrips[t] = from
  /\ srvTrips' = [srvTrips EXCEPT ![t] = to]
  /\ driverQueue' = q
  /\ UNCHANGED <<isAvailable, isLoadingAvailability, activeTrip, tripRequests,
                 locationInterval, driverSocket, driverRooms, driverGet,
                 togglePatch, acceptPosts, actionPosts, emitted>>
  /\ UNCHANGED riderVars

\* a rider's new trip is offered to the driver: 'new-trip-request'
OfferTrip(t) ==
  /\ \A u \in 1..(t - 1) : srvTrips[u] # "none"
  /\ DriverServerStep(t, "none", "REQUESTED",
                      EmitDriver(driverQueue, [ev |-> "new-trip-request", trip |-> t,
                                               status |-> "REQUESTED"]))

\* the trip goes to another driver or is withdrawn: 'trip-unavailable'
TripTaken(t) ==
  DriverServerStep(t, "REQUESTED", "TAKEN",
                   EmitDriver(driverQueue, [ev |-> "trip-unavailable", trip |-> t,
                                            status |-> "TAKEN"]))

\* the rider cancels the driver's trip: 'trip-updated' to the trip's room
RiderCancels(t) ==
  \E s \in {"ACCEPTED", "IN_PROGRESS"} :
    DriverServerStep(t, s, "CANCELLED",
                     EmitRoom(driverQueue, t, [ev |-> "trip-updated", trip |-> t,
                                               status |-> "CANCELLED"]))

\* the driver's shift up to the acceptance of a trip
ShiftNext ==
  \/ DriverSocketConnect
  \/ \E ok \in BOOLEAN : FetchDriverStateResponse(ok)
  \/ \E ok \in BOOLEAN : TogglePress(ok)
  \/ ToggleResponse
  \/ \E t \in Offered, ok \in BOOLEAN : AcceptPress(t, ok)
  \/ \E t \in Offered : AcceptSucceeded(t)
  \/ \E t \in Offered : AcceptFailed(t)
  \/ OnNewTripRequest
  \/ OnTripUnavailable
  \/ LocationTick
  \/ \E t \in Offered : OfferTrip(t)
  \/ \E t \in Offered : TripTaken(t)

\* the trip after its acceptance
RideNext ==
  \/ \E ok \in BOOLEAN : TripActionPress(ok)
  \/ \E p \in actionPosts : TripActionResponse(p)
  \/ OnTripUpdated
  \/ \E t \in DriverTrips : RiderCancels(t)

DriverNext == ShiftNext \/ RideNext

\* the rider's search for a driver and what surrounds it
SearchHandlers ==
  \/ LocateDone
  \/ LocateFail
  \/ \E ok \in BOOLEAN : ActiveRideResponse(ok)
  \/ TypeDestination
  \/ RequestRide
  \/ \E r \in Requests, created \in BOOLEAN : NearbyFound(r, created)
  \/ \E r \in Requests : NearbyEmpty(r)
  \/ \E r \in Requests : NearbyFailed(r)
  \/ DismissNoDriverDialog
  \/ \E t \in {NoTrip} \cup TripIds : TripPostResponse(t)
  \/ SocketConnect
  \/ CloseModal

\* the rider's cancel button and the socket events of the trip
TripHandlers ==
  \/ CancelPress
  \/ \E value \in BOOLEAN, accepted \in BOOLEAN : CancelConfirm(value, accepted)
  \/ \E c \in cancelPosts : CancelResponse(c)
  \/ SocketEvent

RiderHandlers == SearchHandlers \/ TripHandlers

\* the trip's life on the backend and the timer that follows COMPLETED
TripLife ==
  \/ IdleTimerFire
  \/ \E t \in TripIds : ServerAccept(t)
  \/ \E t \in TripIds : ServerStart(t)
  \/ \E t \in TripIds : ServerComplete(t)
  \/ \E t \in TripIds : ServerCancel(t)

\* the rider view with every interleaving of its handlers and the backend
RiderNext == RiderHandlers \/ PollTick \/ TripLife

\* the search of requestRide on its own: the rider never cancels and no driver
\* ever takes a trip, so no socket event is emitted
SearchNext == SearchHandlers \/ PollTick

\* the trip's life with a network that answers every nearby-drivers query
\* before the next tick of the polling interval
TripNext == RiderHandlers \/ ((\A r \in Requests : nearby[r] = 0) /\ PollTick) \/ TripLife

vars == <<riderVars, driverVars>>

\* a rider's session: the driver view is the one of an offline driver without trip
DriverOffDuty == driverGet.trip = NoActive /\ ~driverGet.isAvailable

\* a driver's session: the rider view is the one of a rider without trip
RiderOffTrip == activeGet.trip = NoTrip

Init == RiderInit /\ DriverInit /\ DriverOffDuty

\* a rider's session that starts without a trip or in a trip a driver has accepted
InitTrip == Init /\ activeGet.status # "REQUESTED"
InitDriver == RiderInit /\ DriverInit /\ RiderOffTrip
LeaveNext == RiderNext \/ Unmount \/ handleLogout
Next == RiderNext
Spec == Init /\ [][Next]_vars
SpecSearch == Init /\ [][SearchNext]_vars
SpecTrip == InitTrip /\ [][TripNext]_vars
SpecDriver == InitDriver /\ [][DriverNext]_vars
SpecShift == InitDriver /\ [][ShiftNext]_vars
SpecLeave == Init /\ [][LeaveNext]_vars

\* ---------------------------------------------------------------------------
\* Properties
\* ---------------------------------------------------------------------------

\* C1: while the view holds one trip (rideId set and not replaced), appState never
\* moves to an earlier stage of idle -> REQUESTED -> ACCEPTED -> IN_PROGRESS ->
\* COMPLETED; the only way back to idle is the one that follows COMPLETED (a
\* cancellation clears rideId and is not constrained here).
C1_NeverBack ==
  [][LET Stage(a) == CASE a = "idle" -> 0
                       [] a = "REQUESTED" -> 1
                       [] a = "ACCEPTED" -> 2
                       [] a = "IN_PROGRESS" -> 3
                       [] OTHER -> 4
     IN (rideId # NoTrip /\ rideId' = rideId /\ appState # "idle")
          => \/ Stage(appState') >= Stage(appState)
             \/ appState = "COMPLETED" /\ appState' = "idle"]_vars

\* C2 as the spec states it: appState changes to a trip status only in a step that
\* handles a server report of that status, i.e. the response of GET
\* /api/trips/rider/active or a socket event carrying it.
C2_OnlyReported ==
  [][(appState' # appState /\ appState' # "idle")
       => \/ /\ socket.st = "connected" /\ socket' = socket
             /\ socketQueue # <<>> /\ socketQueue' = Tail(socketQueue)
             /\ Head(socketQueue).status = appState'
          \/ /\ activeGet.st = "inflight" /\ activeGet'.st = "restored"
             /\ activeGet.status = appState']_vars

\* C2 as the code has it: ACCEPTED, IN_PROGRESS and COMPLETED are shown only in a
\* step that handles a server report of that status; REQUESTED is shown on such a
\* report or by requestRide itself; CANCELLED is never shown.
C2_ReportedOrRequested ==
  /\ [](appState # "CANCELLED")
  /\ [][(appState' # appState /\ appState' # "idle")
          => \/ /\ socket.st = "connected" /\ socket' = socket
                /\ socketQueue # <<>> /\ socketQueue' = Tail(socketQueue)
                /\ Head(socketQueue).status = appState'
             \/ /\ activeGet.st = "inflight" /\ activeGet'.st = "restored"
                /\ activeGet.status = appState'
             \/ /\ appState' = "REQUESTED" /\ reqNo' = reqNo + 1
                /\ isRequesting' /\ ~isRequesting]_vars

\* C2: a trip requested in this session is shown as accepted with its driver
C2_AcceptedShown ==
  reqNo > 0 /\ rideId # NoTrip /\ appState = "ACCEPTED" /\ assignedDriver = "drv"

\* C3: one requestRide issues at most MAX_POLLING_ATTEMPTS nearby-drivers queries,
\* and none after an attempt of it has found drivers, has failed, or was the
\* third and found none.
C3_BoundedPolling ==
  /\ [](queries <= MAX_POLLING_ATTEMPTS)
  /\ [][(ended /\ reqNo' = reqNo) => queries' = queries]_vars

\* C3: the third attempt has found no driver: the dialog is up and polling is over
C3_ThirdEmpty ==
  /\ queries = MAX_POLLING_ATTEMPTS /\ ended
  /\ noDriverDialogs > 0 /\ pollingInterval = "cleared"

\* C4: while the driver has an active trip (ACCEPTED or IN_PROGRESS) and a
\* connected socket, the interval that emits update-location is live.
C4_KeepsEmitting ==
  (activeTrip.status \in {"ACCEPTED", "IN_PROGRESS"} /\ driverSocket = "connected")
    => locationInterval

\* C5: toggleAvailability sends the negation of the local flag; when the response
\* arrives isLoadingAvailability is false, and isAvailable is the value sent (with
\* tripRequests emptied when going offline, untouched when going online) if the
\* request succeeded, while a failure leaves isAvailable and tripRequests alone.
C5_Toggle ==
  [][/\ (togglePatch.st # "inflight" /\ togglePatch'.st = "inflight")
          => togglePatch'.new = ~isAvailable /\ isLoadingAvailability'
     /\ (togglePatch.st = "inflight" /\ togglePatch'.st = "done")
          => /\ ~isLoadingAvailability'
             /\ IF togglePatch.ok
                THEN /\ isAvailable' = togglePatch.new
                     /\ tripRequests' = IF togglePatch.new THEN tripRequests ELSE <<>>
                ELSE /\ isAvailable' = isAvailable
                     /\ tripRequests' = tripRequests]_vars

\* C5: going offline has failed: the driver is still online with requests queued
C5_FailedOffline ==
  /\ togglePatch.st = "done" /\ ~togglePatch.ok /\ ~togglePatch.new
  /\ isAvailable /\ tripRequests # <<>> /\ ~isLoadingAvailability

\* C6: in every state a non-empty tripRequests implies isAvailable = true and
\* activeTrip = null.
C6_QueuedOnlyWhenFree ==
  tripRequests # <<>> => (isAvailable /\ activeTrip = NoActive)

\* C7: when the accept request of trip t succeeds, activeTrip is the returned
\* trip, isAvailable is false, tripRequests is empty and a connected socket has
\* joined t's room; when it fails, t alone leaves tripRequests and activeTrip,
\* isAvailable and the other queued requests stay as they are.
C7_AcceptOutcomes ==
  [][\A t \in Offered :
       /\ (acceptPosts[t] = "ok" /\ acceptPosts'[t] = "accepted")
            => /\ activeTrip' = [id |-> t, status |-> "ACCEPTED"]
               /\ ~isAvailable' /\ tripRequests' = <<>>
               /\ driverSocket = "connected" => t \in driverRooms'
       /\ (acceptPosts[t] = "fail" /\ acceptPosts'[t] = "failed")
            => /\ activeTrip' = activeTrip /\ isAvailable' = isAvailable
               /\ tripRequests' = SelectSeq(tripRequests, LAMBDA x : x # t)]_vars

\* C7: an accept request has failed and another request is still queued
C7_FailedOthersQueued ==
  \E t \in Offered :
    /\ acceptPosts[t] = "failed" /\ tripRequests # <<>>
    /\ isAvailable /\ activeTrip = NoActive

\* C8: once GET /api/trips/rider/active has returned a trip and the map is
\* initialised, the view shows that trip's status with its driver for as long as
\* the trip keeps that status and the rider has requested nothing else.
C8_Restored ==
  (/\ activeGet.st = "restored" /\ map /\ reqNo = 0
   /\ rideId = activeGet.trip /\ trips[activeGet.trip] = activeGet.status)
    => (appState = activeGet.status /\ assignedDriver = activeGet.driver)

\* C9: once the rider has used the cancel button of the REQUESTED panel for the
\* current search, no further nearby-drivers query is issued and no trip is
\* created for it.
C9_CancelEndsSearch ==
  [][(reqNo > 0 /\ cancelAsked = reqNo /\ reqNo' = reqNo)
       => (queries' = queries /\ posts' = posts)]_vars

\* C10: at most one POST /api/trips/request is sent for one requestRide.
C10_OnePost == posts <= 1

\* C11: in every state of the driver view an active trip means the driver is
\* not available: activeTrip # null implies isAvailable = false.
C11_ActiveMeansUnavailable == activeTrip # NoActive => ~isAvailable

\* C15: once activeTrip holds a trip that is neither completed nor cancelled, no
\* step replaces it by a different trip.
C15_OneTripAtATime ==
  [][(activeTrip # NoActive /\ activeTrip.status \in {"ACCEPTED", "IN_PROGRESS"}
      /\ activeTrip' # NoActive)
       => activeTrip'.id = activeTrip.id]_vars

\* C12: the CANCELLED handling of updateUIFromState runs once for a cancellation
\* the rider has confirmed: a step that performs it, for the REST response of
\* cancelRide or for a trip-updated event, finds the trip still on the view
\* (rideId set), that is, not handled before.
C12_HandledOnce ==
  [][((\E c \in cancelPosts : c.ok /\ CancelResponse(c))
      \/ (SocketEvent /\ Head(socketQueue).status = "CANCELLED"))
       => rideId # NoTrip]_vars

\* C13: whenever the rider view is in idle with the map initialised and no search
\* in progress (no live polling interval, no nearby-drivers query or trip
\* creation in flight, no dialog open), isRequesting is false.
C13_CanRequestAgain ==
  (/\ appState = "idle" /\ map
   /\ pollingInterval # "armed" /\ noDriverDialogs = 0
   /\ \A r \in Requests : nearby[r] = 0
   /\ \A t \in {NoTrip} \cup TripIds : tripPosts[t] = 0)
    => ~isRequesting

\* C14: once the trip has been handled as CANCELLED or COMPLETED and the view is
\* back in idle without a trip, a socket event delivered before the next
\* requestRide changes neither appState nor assignedDriver nor the driver marker.
C14_StaysFinished ==
  [][(/\ appState = "idle" /\ rideId = NoTrip /\ idleTimers = 0
      /\ SocketEvent)
       => (appState' = appState /\ assignedDriver' = assignedDriver
           /\ drivers' = drivers)]_vars

\* C16: after the rider view has been unmounted (or handleLogout has run) its
\* socket is neither connecting nor connected, and no step sends a
\* POST /api/trips/request.
C16_LeavingStops ==
  /\ [](~mounted => socket.st \notin {"connecting", "connected"})
  /\ [][~mounted => \A t \in {NoTrip} \cup TripIds : tripPosts'[t] <= tripPosts[t]]_vars

\* C17: when the three nearby-drivers attempts of a requestRide have all returned
\* an empty list, the third response opens the 'Sin Conductores Disponibles'
\* dialog and clears isRequesting, no POST /api/trips/request has been sent for
\* the request, and dismissing the dialog leaves the view in idle with
\* isRequesting false.
C17_NoDriverEndsCleanly ==
  /\ [](empties = MAX_POLLING_ATTEMPTS => posts = 0)
  /\ [][(empties < MAX_POLLING_ATTEMPTS /\ empties' = MAX_POLLING_ATTEMPTS)
          => (noDriverDialogs' = noDriverDialogs + 1 /\ ~isRequesting')]_vars
  /\ [][(empties = MAX_POLLING_ATTEMPTS /\ noDriverDialogs' < noDriverDialogs)
          => (appState' = "idle" /\ ~isRequesting')]_vars

\* C17: three attempts came back empty, the dialog was dismissed, the view is idle
C17_AllEmptyIdle ==
  /\ reqNo > 0 /\ empties = MAX_POLLING_ATTEMPTS /\ noDriverDialogs = 0
  /\ posts = 0 /\ appState = "idle" /\ ~isRequesting

====
